---- MODULE Spec2Model ----
(***************************************************************************)
(* A model of the kty dashboard runtime: the View/Element event dispatch   *)
(* (src/widget/view.rs), the root widget Apex (src/widget/apex.rs) and the *)
(* render loop with its UI/Raw Mode state machine (src/dashboard.rs).      *)
(***************************************************************************)
EXTENDS Integers, Sequences, FiniteSets, TLC

(***************************************************************************)
(* Bounds of the model.                                                    *)
(***************************************************************************)
\* longest element sequence a View is given or grows to
MaxElems == 3
\* most events waiting in the channel
MaxQueue == 2
\* most Error overlays Apex is made to push in one run
MaxOverlays == 1
\* most chunks the input stream of a session yields
MaxChunks == 2
\* most sessions started in one process
MaxSessions == 2
\* most watch events a Store is given
MaxUpdates == 2
\* greatest z-index of the elements a View is given to draw
MaxZ == 2

(***************************************************************************)
(* Broadcast (crate::events::Broadcast) and the Result<Broadcast> a        *)
(* dispatch returns.  A Raw broadcast owns the raw widget it carries.      *)
(***************************************************************************)
RawIds == {"r1", "r2"}

Ignored  == [kind |-> "Ignored",  raw |-> "none"]
Consumed == [kind |-> "Consumed", raw |-> "none"]
Exited   == [kind |-> "Exited",   raw |-> "none"]
RawB(r)  == [kind |-> "Raw",      raw |-> r]
\* Err(report): the error arm of Result<Broadcast>
ErrR     == [kind |-> "Err",      raw |-> "none"]
\* no dispatch has returned yet
NoResult == [kind |-> "None",     raw |-> "none"]

Broadcasts == {Ignored, Consumed, Exited} \cup {RawB(r) : r \in RawIds}
\* what a `dyn Widget` may answer to a dispatch
Responses == Broadcasts \cup {ErrR}

(***************************************************************************)
(* Element: a boxed widget with its terminal flag; the widget is known by  *)
(* its identity and the z-index it reports.                                *)
(***************************************************************************)
\* Widget::zindex, 0 unless the widget overrides it
DefaultZ == 0

Element(id, terminal, z) == [id |-> id, terminal |-> terminal, z |-> z]

\* From<BoxWidget> for Element: a plain conversion is never terminal
ElementFrom(id, z) == Element(id, FALSE, z)

(***************************************************************************)
(* View                                                                    *)
(***************************************************************************)
\* View::push
Push(ws, el) == Append(ws, el)

\* View::pop: Vec::pop on an empty vector is a no-op
Pop(ws) == IF ws = <<>> THEN ws ELSE SubSeq(ws, 1, Len(ws) - 1)

\* faulty variant: removes the topmost element whatever the index
RemoveLast(ws, i) == SubSeq(ws, 1, Len(ws) - 1)

\* Vec::remove(i), positions counted from 1
Remove(ws, i) == SubSeq(ws, 1, i - 1) \o SubSeq(ws, i + 1, Len(ws))

\* faulty variant: first to last (the .rev() forgotten)
Forward(n) == [k \in 1..n |-> k]

\* widgets.iter_mut().enumerate().rev(): positions from the last to the first
Reversed(n) == [k \in 1..n |-> n + 1 - k]

\* the broadcast propagate! returns once its exit block has run
Absorbed == Ignored

\* propagate!: what the macro does with the Result a dispatch returned
propagate(r) ==
    CASE r.kind = "Err"     -> "return"
      [] r.kind = "Ignored" -> "continue"
      [] r.kind = "Exited"  -> "exit"
      [] OTHER              -> "return"

\* faulty variant: the terminal flag is not consulted, the element is always removed
\* and the exit is raised
ExitAlwaysRaise(ws, i) == [widgets |-> Remove(ws, i), result |-> Exited]

\* faulty variant: the terminal flag is not consulted, the element is always removed
ExitAlwaysRemove(ws, i) == [widgets |-> Remove(ws, i), result |-> Absorbed]

\* the exit block of View::dispatch and the macro's return after it
OnExited(ws, i) ==
    IF ws[i].terminal
    THEN [widgets |-> ws, result |-> Exited]
    ELSE [widgets |-> Remove(ws, i), result |-> Absorbed]

RECURSIVE DispatchLoop(_, _, _, _)
\* the for loop of View::dispatch over the remaining positions `order`;
\* resp[i] is what element i answers, visited the positions offered the event
DispatchLoop(ws, resp, order, visited) ==
    IF order = <<>>
    THEN [widgets |-> ws, result |-> Ignored, visited |-> visited]
    ELSE LET i == Head(order)
             v == Append(visited, i)
             c == propagate(resp[i])
         IN  CASE c = "continue" -> DispatchLoop(ws, resp, Tail(order), v)
               [] c = "exit"     -> [widgets |-> OnExited(ws, i).widgets,
                                     result  |-> OnExited(ws, i).result,
                                     visited |-> v]
               [] OTHER          -> [widgets |-> ws, result |-> resp[i],
                                     visited |-> v]

\* View::dispatch
ViewDispatch(ws, resp) == DispatchLoop(ws, resp, Reversed(Len(ws)), <<>>)

(***************************************************************************)
(* Event (crate::events::Event)                                            *)
(***************************************************************************)
Ev(type, arg) == [type |-> type, arg |-> arg]

NoEvent     == Ev("None", "none")
Render      == Ev("Render", "none")
Input(key)  == Ev("Input", key)
Resize(a)   == Ev("Resize", a)
Tunnel(res) == Ev("Tunnel", res)
Finished(res) == Ev("Finished", res)

\* what the senders of the channel put on it
ChannelEvents ==
    {Input("EndOfText"), Input("Escape"), Resize("a1"), Tunnel("err")}

(***************************************************************************)
(* Apex, the root widget                                                   *)
(***************************************************************************)
\* Apex::new: the terminal tab view, the Tunnel widget and, at debug level,
\* the Debug widget, in a show-all View
ApexNew(debug) ==
    [id       |-> "apex",
     widgets  |-> <<Element(1, TRUE, DefaultZ), ElementFrom(2, DefaultZ)>>
                  \o (IF debug THEN <<ElementFrom(3, DefaultZ)>> ELSE <<>>),
     show_all |-> TRUE]

\* the identity of the first overlay Apex constructs after Apex::new
FirstOverlayId == Len(ApexNew(TRUE).widgets) + 1

\* faulty variant: the Error overlay is pushed as a terminal element
PushedTerminal(ws, ev, id) ==
    IF ev = Tunnel("err") THEN Push(ws, Element(id, TRUE, DefaultZ)) ELSE ws

\* the first statement of Apex::dispatch: an Error overlay on Tunnel(Err)
Pushed(ws, ev, id) ==
    IF ev = Tunnel("err") THEN Push(ws, ElementFrom(id, DefaultZ)) ELSE ws

\* Apex::dispatch; id is the identity of the overlay it may construct
ApexDispatch(w, ev, resp, id) ==
    LET d == ViewDispatch(Pushed(w.widgets, ev, id), resp)
    IN  [widget |-> [w EXCEPT !.widgets = d.widgets], result |-> d.result]

(***************************************************************************)
(* Mode                                                                    *)
(***************************************************************************)
UI(w)       == [kind |-> "UI",  raw |-> "none", widget |-> w]
RawM(r, w)  == [kind |-> "Raw", raw |-> r,      widget |-> w]

\* Mode::raw
ModeRaw(m, r) == RawM(r, m.widget)

\* faulty variant: the suspended widget is dropped and a new root is built
ModeUiFresh(m) ==
    IF m.kind = "Raw" THEN UI([m.widget EXCEPT !.id = "fresh"]) ELSE m

\* Mode::ui
ModeUi(m) == IF m.kind = "Raw" THEN UI(m.widget) ELSE m

(***************************************************************************)
(* State                                                                   *)
(***************************************************************************)
VARIABLES
    widgets,    \* View.widgets of the View under test
    vOp,        \* the last operation applied to the View
    vPrev,      \* View.widgets before the last dispatch
    vResp,      \* what each element answers when the last event reaches it
    vVisited,   \* positions offered the event in the last dispatch, in order
    vResult,    \* what the last dispatch returned
    pc,         \* where run() is
    state,      \* run's `state`: the Mode
    rx,         \* the events waiting in the channel
    txOpen,     \* some sender of the channel is still alive
    ev,         \* run's `ev`
    result,     \* `result` of draw_ui, then of run
    raw_result, \* run's `raw_result`
    window_size,\* the shared window size
    term,       \* the writes to the terminal in this iteration of the loop
    dispatched, \* the events dispatched to the root widget in this iteration
    left,       \* how the loop was left
    left_ev,    \* the event in hand when the loop was left on Exited
    shutdowns,  \* calls of stdout.shutdown
    nextId,     \* identity of the next overlay Apex constructs
    stdin,      \* start's `stdin`: the number of chunks it yields before it ends
    stream,     \* the chunks the forwarding task has read from `stream`
    reader,     \* where the forwarding task is
    tx,         \* the sender start returned is still held by the caller
    chan,       \* the events waiting in the session's channel
    render,     \* where the session's render thread is
    forwarded,  \* the events the forwarding task has sent, in order
    sessions,   \* the sessions of the process: thread, Mode, stack, channel
    threads_total,  \* TOTAL_DASHBOARD_THREADS
    threads_active, \* ACTIVE_DASHBOARD_THREADS
    task,       \* Store.task: where the background watch task is
    dropped,    \* the Store has been dropped
    snapshot,   \* what Store.reader holds: the objects of the reflector store
    prefixes,   \* the snapshots left by the watch events applied so far
    delivered,  \* the number of watch events applied
    inflight,   \* the watch event the task is applying
    seen,       \* what the last call of state() returned
    loading_ret, \* what the last call of loading() returned, and when
    show_all,   \* View.show_all of the View under test
    layers,     \* the layers the last draw formed, bottom first
    drawn,      \* the elements whose draw the last View::draw called, in order
    draw_ret,   \* what the last View::draw returned
    list_view,  \* node::List.view.widgets
    is_ready,   \* node::List.is_ready: the state of the oneshot channel
    list_op,    \* the last operation on the List
    list_before, \* node::List.view.widgets before the last operation
    list_ret,   \* what the last List::dispatch returned
    mode,       \* the Mode under test
    mode_op,    \* the last method applied to the Mode
    mode_before \* the Mode before the last method

viewVars == <<widgets, vOp, vPrev, vResp, vVisited, vResult>>

loopVars == <<pc, state, rx, txOpen, ev, result, raw_result, window_size,
              term, dispatched, left, left_ev, shutdowns, nextId>>

startVars == <<stdin, stream, reader, tx, chan, render, forwarded>>

processVars == <<sessions, threads_total, threads_active>>

storeVars == <<task, dropped, snapshot, prefixes, delivered, inflight, seen,
               loading_ret>>

drawVars == <<show_all, layers, drawn, draw_ret>>

listVars == <<list_view, is_ready, list_op, list_before, list_ret>>

modeVars == <<mode, mode_op, mode_before>>

restVars == <<startVars, processVars, storeVars, drawVars, listVars,
              modeVars>>

\* what the steps of a session's two units leave alone
beyondStart == <<viewVars, loopVars, processVars, storeVars, drawVars,
                 listVars, modeVars>>

\* what the steps of the sessions of a process leave alone
beyondProcess == <<viewVars, loopVars, startVars, storeVars, drawVars,
                   listVars, modeVars>>

\* what the steps of a Store and of its callers leave alone
beyondStore == <<viewVars, loopVars, startVars, processVars, drawVars,
                 listVars, modeVars>>

\* what a draw of the View under test leaves alone
beyondDraw == <<vPrev, vResp, vVisited, vResult, loopVars, startVars,
                processVars, storeVars, listVars, modeVars>>

\* what the operations of a node::List leave alone
beyondList == <<viewVars, loopVars, startVars, processVars, storeVars,
                drawVars, modeVars>>

\* what the methods of a Mode leave alone
beyondMode == <<viewVars, loopVars, startVars, processVars, storeVars,
                drawVars, listVars>>

vars == <<viewVars, loopVars, restVars>>

\* the View under test before anything is given to it
ViewIdle ==
    /\ widgets = <<>>
    /\ vOp = "init"
    /\ vPrev = <<>>
    /\ vResp = <<>>
    /\ vVisited = <<>>
    /\ vResult = NoResult

\* a session whose input is empty and whose two units have just been started
StartIdle ==
    /\ stdin = 0
    /\ stream = 0
    /\ reader = "select"
    /\ tx = TRUE
    /\ chan = <<>>
    /\ render = "running"
    /\ forwarded = <<>>

\* a session nobody has started
NoSession == [thread |-> "unstarted", mode |-> "none", stack |-> 0, chan |-> 0]

\* a process in which no session has been started; the counters are
\* registered at zero
ProcessIdle ==
    /\ sessions = [s \in 1..MaxSessions |-> NoSession]
    /\ threads_total = 0
    /\ threads_active = 0

\* no watch event in hand
NoUpdate == [op |-> "None", objs |-> {}]

\* Store::new has returned: the store is empty, the task has been spawned
\* and waits on the watch stream
StoreNew ==
    /\ task = "waiting"
    /\ dropped = FALSE
    /\ snapshot = {}
    /\ prefixes = {{}}
    /\ delivered = 0
    /\ inflight = NoUpdate
    /\ seen = <<>>
    /\ loading_ret = <<>>

\* a View built without show_all that has not been drawn
Undrawn ==
    /\ show_all = FALSE
    /\ layers = <<>>
    /\ drawn = <<>>
    /\ draw_ret = "none"

\* List::new has returned: the table under the Loading overlay, both built
\* by From<BoxWidget>, and the readiness signal not sent yet
ListNew ==
    /\ list_view = <<ElementFrom(1, DefaultZ), ElementFrom(2, DefaultZ)>>
    /\ is_ready = "pending"
    /\ list_op = "new"
    /\ list_before = <<>>
    /\ list_ret = NoResult

\* the Mode run() starts in, with no method applied
ModeIdle ==
    /\ mode = UI(ApexNew(FALSE))
    /\ mode_op = <<>>
    /\ mode_before = UI(ApexNew(FALSE))

RestIdle ==
    StartIdle /\ ProcessIdle /\ StoreNew /\ Undrawn /\ ListNew /\ ModeIdle

\* run() at its first select; the log level is the default one, below DEBUG,
\* so Apex is built without the Debug widget
LoopInit ==
    /\ pc = "select"
    /\ state = UI(ApexNew(FALSE))
    /\ nextId = FirstOverlayId
    /\ rx = <<>>
    /\ txOpen = TRUE
    /\ ev = NoEvent
    /\ result = NoResult
    /\ raw_result = "none"
    /\ window_size = "a0"
    /\ term = <<>>
    /\ dispatched = <<>>
    /\ left = "no"
    /\ left_ev = NoEvent
    /\ shutdowns = 0

(***************************************************************************)
(* SpecView: a View of arbitrary elements receiving a sequence of events.  *)
(***************************************************************************)
\* element sequences of length n with identities 1..n
ViewsOfLen(n) ==
    {[k \in 1..n |-> Element(k, f[k], DefaultZ)] : f \in [1..n -> BOOLEAN]}

\* the answers the elements of the View under test give
ViewResponses == {Ignored, Consumed, Exited, RawB("r1"), ErrR}

ViewInit ==
    /\ \E n \in 0..MaxElems : widgets \in ViewsOfLen(n)
    /\ vOp = "init"
    /\ vPrev = <<>>
    /\ vResp = <<>>
    /\ vVisited = <<>>
    /\ vResult = NoResult
    /\ LoopInit
    /\ RestIdle

\* View::dispatch of one event, the elements answering resp
ViewDispatching ==
    /\ \E resp \in [1..Len(widgets) -> ViewResponses] :
        LET d == ViewDispatch(widgets, resp)
        IN  /\ widgets' = d.widgets
            /\ vOp' = "dispatch"
            /\ vPrev' = widgets
            /\ vResp' = resp
            /\ vVisited' = d.visited
            /\ vResult' = d.result
    /\ UNCHANGED <<loopVars, restVars>>

ViewNext == ViewDispatching

SpecView == ViewInit /\ [][ViewNext]_vars

(***************************************************************************)
(* Spec: one session's render loop, run() of src/dashboard.rs, with the    *)
(* senders of its channel, the terminal and the widgets as environment.    *)
(***************************************************************************)
\* a terminal write; the output of the raw widget is recorded once however
\* long it is
Written(t, op) ==
    IF op = "raw_output" /\ t # <<>> /\ t[Len(t)] = op THEN t ELSE Append(t, op)

\* a dispatch to the root widget
Delivered(d, e) == Append(d, e)

\* all elements ignore the event
Quiet(n) == [k \in 1..n |-> Ignored]

\* the answers of n elements of which at most one claims the event
Answers(n, R) ==
    {Quiet(n)} \cup
    {[Quiet(n) EXCEPT ![i] = a] : i \in 1..n, a \in R \ {Ignored}}

\* Tunnel(Err) events waiting or in hand, each of which will push an overlay
PendingOverlays ==
    Cardinality({k \in 1..Len(rx) : rx[k] = Tunnel("err")})
    + (IF ev = Tunnel("err") /\ pc = "body" THEN 1 ELSE 0)

\* run() suspends only at its awaits: the select, the raw widget's start and
\* the final shutdown; it looks at the channel at the first two
AtAwait == pc \in {"select", "raw_run"}

\* tx.send(e) by a holder of a sender; what is sent between two awaits of the
\* loop is seen by it at the next one
Send ==
    /\ txOpen
    /\ AtAwait
    /\ Len(rx) < MaxQueue
    /\ \E e \in ChannelEvents :
          /\ e = Tunnel("err") =>
                (nextId - FirstOverlayId) + PendingOverlays < MaxOverlays
          /\ rx' = Append(rx, e)
    /\ UNCHANGED <<viewVars, restVars, left_ev, pc, state, txOpen, ev, result,
                   raw_result, window_size, term, dispatched, left, shutdowns,
                   nextId>>

\* the last sender is dropped
CloseSenders ==
    /\ txOpen
    /\ AtAwait
    /\ txOpen' = FALSE
    /\ UNCHANGED <<viewVars, restVars, left_ev, pc, state, rx, ev, result, raw_result,
                   window_size, term, dispatched, left, shutdowns, nextId>>

\* faulty variant: the shared size is left as it was
Unresized(size, e) == size

\* the Resize arm at the head of the loop body
Resized(size, e) == IF e.type = "Resize" THEN e.arg ELSE size

\* select!: rx.recv() yields an event
SelectRecv ==
    /\ pc = "select"
    /\ rx # <<>>
    /\ ev' = Head(rx)
    /\ rx' = Tail(rx)
    /\ window_size' = Resized(window_size, Head(rx))
    /\ pc' = "body"
    /\ UNCHANGED <<viewVars, restVars, left_ev, state, txOpen, result, raw_result,
                   term, dispatched, left, shutdowns, nextId>>

\* select!: rx.recv() yields None, the loop is left
SelectClosed ==
    /\ pc = "select"
    /\ rx = <<>>
    /\ ~txOpen
    /\ left' = "Closed"
    /\ pc' = "cleanup"
    /\ UNCHANGED <<viewVars, restVars, left_ev, state, rx, txOpen, ev, result,
                   raw_result, window_size, term, dispatched, shutdowns,
                   nextId>>

\* select!: the interval ticks
SelectTick ==
    /\ pc = "select"
    /\ ev' = Render
    /\ window_size' = Resized(window_size, Render)
    /\ pc' = "body"
    /\ UNCHANGED <<viewVars, restVars, left_ev, state, rx, txOpen, result, raw_result,
                   term, dispatched, left, shutdowns, nextId>>

\* faulty variant: every iteration takes the UI arm
AlwaysUi(m) == TRUE

\* `match state`: the arm the loop body takes
UiArm(m) == m.kind = "UI"

\* faulty variant: draw_ui hands every event to the widget
NeverIntercepted(e) == FALSE

\* the `if let` at the head of draw_ui: the key on which it returns Exited
\* at once
Intercepted(e) == e = Input("EndOfText")

\* draw_ui up to its term.draw: the event is dispatched to the widget
UiDispatch ==
    /\ pc = "body"
    /\ UiArm(state)
    /\ CASE Intercepted(ev) ->
              /\ result' = Exited
              /\ pc' = "match"
              /\ UNCHANGED <<state, dispatched, nextId>>
         [] ev = Render ->
              /\ result' = Ignored
              /\ pc' = "ui_draw"
              /\ UNCHANGED <<state, dispatched, nextId>>
         [] OTHER ->
              \E resp \in Answers(Len(Pushed(state.widget.widgets, ev, nextId)),
                                  Responses) :
                  LET d == ApexDispatch(state.widget, ev, resp, nextId)
                  IN  /\ state' = [state EXCEPT !.widget = d.widget]
                      /\ result' = d.result
                      /\ dispatched' = Delivered(dispatched, ev)
                      /\ nextId' = IF ev = Tunnel("err")
                                   THEN nextId + 1 ELSE nextId
                      /\ pc' = "ui_draw"
    /\ UNCHANGED <<viewVars, restVars, left_ev, rx, txOpen, ev, raw_result,
                   window_size, term, left, shutdowns>>

\* the term.draw of draw_ui and its return into run
UiDraw ==
    /\ pc = "ui_draw"
    /\ \E outcome \in {"ok", "widget_err", "term_err"} :
          CASE outcome = "widget_err" ->
                 \* widget.draw failed: panic!
                 /\ pc' = "panicked"
                 /\ UNCHANGED term
            [] outcome = "term_err" ->
                 /\ pc' = "failed"
                 /\ UNCHANGED term
            [] OTHER ->
                 /\ term' = Written(term, "ui_frame")
                 /\ pc' = IF result = ErrR THEN "failed" ELSE "match"
    /\ UNCHANGED <<viewVars, restVars, left_ev, state, rx, txOpen, ev, result,
                   raw_result, window_size, dispatched, left, shutdowns,
                   nextId>>

\* faulty variant: the error of draw_raw is propagated with `?`
DrawRawTried(res) == IF res = "err" THEN "failed" ELSE "raw_done"

\* `let raw_result = draw_raw(..).await;`: run keeps the Result whatever it
\* is and goes on to the dispatch of Finished
DrawRawKept(res) == "raw_done"

\* draw_raw up to the await of raw_widget.start
RawBegin ==
    /\ pc = "body"
    /\ ~UiArm(state)
    /\ \E outcome \in {"ok", "clear_err", "reset_err"} :
          CASE outcome = "clear_err" ->
                 /\ raw_result' = "err"
                 /\ pc' = DrawRawKept("err")
                 /\ UNCHANGED term
            [] outcome = "reset_err" ->
                 /\ term' = Written(term, "clear")
                 /\ raw_result' = "err"
                 /\ pc' = DrawRawKept("err")
            [] OTHER ->
                 /\ term' = Written(Written(term, "clear"), "reset_cursor")
                 /\ pc' = "raw_run"
                 /\ UNCHANGED raw_result
    /\ UNCHANGED <<viewVars, restVars, left_ev, state, rx, txOpen, ev, result,
                   window_size, dispatched, left, shutdowns, nextId>>

\* the running raw widget takes an event from the channel it was lent
RawInput ==
    /\ pc = "raw_run"
    /\ rx # <<>>
    /\ rx' = Tail(rx)
    /\ term' = Written(term, "raw_output")
    /\ UNCHANGED <<viewVars, restVars, left_ev, pc, state, txOpen, ev, result,
                   raw_result, window_size, dispatched, left, shutdowns,
                   nextId>>

\* raw_widget.start returns and draw_raw with it
RawEnd ==
    /\ pc = "raw_run"
    /\ \E outcome \in {"ok", "start_err", "clear_err"} :
          CASE outcome = "ok" ->
                 /\ term' = Written(term, "clear")
                 /\ raw_result' = "ok"
            [] OTHER ->
                 /\ raw_result' = "err"
                 /\ UNCHANGED term
    /\ pc' = DrawRawKept(raw_result')
    /\ UNCHANGED <<viewVars, restVars, left_ev, state, rx, txOpen, ev, result,
                   window_size, dispatched, left, shutdowns, nextId>>

\* faulty variant: the error of the raw run is swallowed
FinishedOk(res) == Finished("ok")

\* Event::Finished(raw_result.map_err(..))
FinishedEvent(res) == Finished(res)

\* the rest of the Raw arm: Finished is dispatched to the suspended widget
\* and the Mode returns to UI
RawFinish ==
    /\ pc = "raw_done"
    /\ \E resp \in Answers(Len(state.widget.widgets), Responses) :
          LET e == FinishedEvent(raw_result)
              d == ApexDispatch(state.widget, e, resp, nextId)
          IN  /\ dispatched' = Delivered(dispatched, e)
              /\ IF d.result = ErrR
                 THEN /\ state' = [state EXCEPT !.widget = d.widget]
                      /\ result' = d.result
                      /\ pc' = "failed"
                 ELSE /\ state' = ModeUi([state EXCEPT !.widget = d.widget])
                      /\ result' = d.result
                      /\ pc' = "match"
    /\ UNCHANGED <<viewVars, restVars, left_ev, rx, txOpen, ev, raw_result,
                   window_size, term, left, shutdowns, nextId>>

\* `match result` at the end of the loop body
Match ==
    /\ pc = "match"
    /\ CASE result = Exited ->
              /\ left' = "Exited"
              /\ left_ev' = ev
              /\ pc' = "cleanup"
              /\ UNCHANGED state
         [] result.kind = "Raw" ->
              /\ state' = ModeRaw(state, result.raw)
              /\ pc' = "select"
              /\ UNCHANGED <<left, left_ev>>
         [] OTHER ->
              /\ pc' = "select"
              /\ UNCHANGED <<state, left, left_ev>>
    /\ result' = NoResult
    /\ ev' = NoEvent
    /\ raw_result' = "none"
    /\ term' = <<>>
    /\ dispatched' = <<>>
    /\ UNCHANGED <<viewVars, restVars, rx, txOpen, window_size, shutdowns,
                   nextId>>

\* after the loop: the final term.draw and stdout.shutdown
Cleanup ==
    /\ pc = "cleanup"
    /\ \E outcome \in {"ok", "draw_err", "shutdown_err"} :
          CASE outcome = "draw_err" ->
                 /\ pc' = "failed"
                 /\ UNCHANGED <<term, shutdowns>>
            [] outcome = "shutdown_err" ->
                 /\ term' = Written(term, "final_clear")
                 /\ shutdowns' = shutdowns + 1
                 /\ pc' = "failed"
            [] OTHER ->
                 /\ term' = Written(term, "final_clear")
                 /\ shutdowns' = shutdowns + 1
                 /\ pc' = "done"
    /\ UNCHANGED <<viewVars, restVars, left_ev, state, rx, txOpen, ev, result,
                   raw_result, window_size, dispatched, left, nextId>>

Init == ViewIdle /\ LoopInit /\ RestIdle

Next ==
    \/ Send
    \/ CloseSenders
    \/ SelectRecv
    \/ SelectClosed
    \/ SelectTick
    \/ UiDispatch
    \/ UiDraw
    \/ RawBegin
    \/ RawInput
    \/ RawEnd
    \/ RawFinish
    \/ Match
    \/ Cleanup

Spec == Init /\ [][Next]_vars

(***************************************************************************)
(* Properties of View::dispatch (checked under SpecView)                   *)
(***************************************************************************)
\* the topmost element of vPrev whose answer is not Ignored, 0 when all are
Stopper ==
    LET S == {i \in 1..Len(vPrev) : vResp[i] # Ignored}
    IN  IF S = {} THEN 0 ELSE CHOOSE i \in S : \A j \in S : j <= i

\* the event reached a non-terminal element that answered Exited
NonTerminalExit ==
    /\ vOp = "dispatch"
    /\ Stopper # 0
    /\ vResp[Stopper] = Exited
    /\ ~vPrev[Stopper].terminal

\* the event reached a terminal element that answered Exited
TerminalExit ==
    /\ vOp = "dispatch"
    /\ Stopper # 0
    /\ vResp[Stopper] = Exited
    /\ vPrev[Stopper].terminal

\* ws is old with exactly position i taken out, the rest in order
WithoutPosition(ws, old, i) ==
    /\ Len(ws) = Len(old) - 1
    /\ \A k \in 1..Len(ws) : ws[k] = IF k < i THEN old[k] ELSE old[k + 1]

\* C1: when dispatch reaches a non-terminal element that returns Exited, the
\* View removes exactly that element, keeps all others in their order, and
\* does not return Exited to its caller.
C1_RemovesExactlyThatElement ==
    NonTerminalExit =>
        /\ WithoutPosition(widgets, vPrev, Stopper)
        /\ vResult # Exited

\* a non-terminal element in the middle of three exited
C1_Witness ==
    /\ NonTerminalExit
    /\ Len(vPrev) = 3
    /\ Stopper = 2
    /\ widgets = <<vPrev[1], vPrev[3]>>

\* C2: when a terminal element returns Exited and every element above it
\* returned Ignored, dispatch returns Exited and the stack is unchanged.
C2_TerminalExitCascades ==
    TerminalExit => (vResult = Exited /\ widgets = vPrev)

\* the terminal element at the bottom exited under two elements that ignored
C2_Witness ==
    /\ TerminalExit
    /\ Stopper = 1
    /\ Len(vPrev) = 3
    /\ vResult = Exited

\* C3: the event is offered from the last element to the first; an element is
\* offered the event only if every element above it returned Ignored; a
\* Consumed or Raw answer is returned unchanged and nothing lower is visited;
\* if every element returns Ignored the View returns Ignored.
C3_TopDownFirstClaimWins ==
    vOp = "dispatch" =>
        /\ \A k \in 1..Len(vVisited) : vVisited[k] = Len(vPrev) + 1 - k
        /\ \A k \in 1..Len(vVisited) :
              \A j \in (vVisited[k] + 1)..Len(vPrev) : vResp[j] = Ignored
        /\ (Stopper # 0 /\ vResp[Stopper].kind \in {"Consumed", "Raw"}) =>
              /\ vResult = vResp[Stopper]
              /\ vVisited[Len(vVisited)] = Stopper
              /\ widgets = vPrev
        /\ Stopper = 0 =>
              /\ vResult = Ignored
              /\ Len(vVisited) = Len(vPrev)

\* the middle element claimed the event with Raw while the one below it would
\* have claimed it too
C3_Witness ==
    /\ vOp = "dispatch"
    /\ Len(vPrev) = 3
    /\ Stopper = 2
    /\ vResp[2].kind = "Raw"
    /\ vResp[1] = Consumed
    /\ vVisited = <<3, 2>>
    /\ vResult = vResp[2]

\* C4: when dispatch absorbs an Exited from a non-terminal element, removing
\* it, the value returned to the caller is Ignored.
C4_AbsorbedExitReturnsIgnored ==
    (NonTerminalExit /\ Len(widgets) < Len(vPrev)) => vResult = Ignored

\* the topmost, non-terminal element exited and was removed
C4_Witness ==
    /\ NonTerminalExit
    /\ Stopper = Len(vPrev)
    /\ Len(widgets) = Len(vPrev) - 1
    /\ vResult = Ignored

(***************************************************************************)
(* Properties of the render loop (checked under Spec)                      *)
(***************************************************************************)
\* a Mode is UI(w) or Raw(r, w)
ModeOk(m) ==
    /\ m.kind \in {"UI", "Raw"}
    /\ m.kind = "UI" => m.raw = "none"
    /\ m.kind = "Raw" => m.raw \in RawIds

\* the terminal writes of the step
NewWrites ==
    IF Len(term') > Len(term)
    THEN {term'[k] : k \in (Len(term) + 1)..Len(term')}
    ELSE {}

\* C5: the Mode is always UI(w) or Raw(r, w); Raw is entered only from UI,
\* by the match on a result Raw(r) that a dispatch to the active widget
\* returned in this iteration, keeping the widget; Raw is left only once
\* draw_raw has returned, to UI with the same widget; a Raw Mode never
\* changes its raw widget; the root widget is never replaced.
C5_ModeTransitions ==
    [][ /\ ModeOk(state')
        /\ (state.kind = "UI" /\ state'.kind = "Raw") =>
              /\ pc = "match"
              /\ result = RawB(state'.raw)
              /\ dispatched # <<>>
              /\ state'.widget = state.widget
        /\ (state.kind = "Raw" /\ state'.kind = "UI") =>
              /\ pc = "raw_done"
              /\ raw_result # "none"
        /\ (state.kind = "Raw" /\ state'.kind = "Raw") =>
              state'.raw = state.raw
        /\ (state.kind = "Raw" /\ pc # "raw_done") =>
              state'.widget = state.widget
        /\ state'.widget.id = state.widget.id
      ]_vars

\* a second takeover is over and the root widget is back in UI
C5_Witness ==
    /\ pc = "match"
    /\ state.kind = "UI"
    /\ state.widget.id = "apex"
    /\ raw_result = "ok"
    /\ result = RawB("r2")
    /\ dispatched = <<Finished("ok")>>

\* C6: once draw_raw has returned, nothing is dispatched to the suspended
\* widget and the Mode keeps its raw widget until Finished is dispatched;
\* after that exactly one event has been dispatched in the iteration, the
\* Finished carrying the result of the run, and only then does the loop
\* reach the match that can start the next takeover.
C6_FinishedDeliveredOnce ==
    /\ pc \in {"raw_run", "raw_done"} =>
          (dispatched = <<>> /\ state.kind = "Raw")
    /\ pc = "raw_done" => raw_result # "none"
    /\ (raw_result # "none" /\ pc # "raw_done") =>
          /\ dispatched = <<Finished(raw_result)>>
          /\ pc \in {"match", "failed"}

\* a failed run was reported to the widget
C6_Witness ==
    /\ pc = "match"
    /\ raw_result = "err"
    /\ dispatched = <<Finished("err")>>
    /\ state.kind = "UI"

\* C7: an error of draw_raw never ends the loop: the loop goes on to dispatch
\* Finished(Err) to the suspended widget; unless the widget answers with an
\* error the Mode is then UI with that widget, and unless it answers Exited
\* the loop returns to its select.
C7_RawFailureNotFatal ==
    [][ /\ (state.kind = "Raw" /\ pc \in {"body", "raw_run"}) =>
              pc' \in {"raw_run", "raw_done"}
        /\ (pc = "raw_done" /\ raw_result = "err" /\ pc' # pc) =>
              /\ dispatched' = <<Finished("err")>>
              /\ pc' = "failed" => result' = ErrR
              /\ pc' # "failed" =>
                    /\ pc' = "match"
                    /\ state'.kind = "UI"
                    /\ state'.widget.id = state.widget.id
        /\ (pc = "match" /\ raw_result = "err" /\ pc' # pc) =>
              /\ state.kind = "UI"
              /\ pc' = IF result = Exited THEN "cleanup" ELSE "select"
      ]_vars

\* the loop is back at its select in UI mode after the terminal failed
\* before the raw widget was started
C7_Witness ==
    /\ pc = "match"
    /\ raw_result = "err"
    /\ term = <<>>
    /\ state.kind = "UI"
    /\ result = Consumed

\* C8 as claimed: from the moment a widget returns Raw until the Mode is UI
\* again, the terminal is written only by the clear and reset around the raw
\* run and by the raw widget.
C8_Claimed ==
    [][ (state.kind = "Raw" \/ result.kind = "Raw") =>
            NewWrites \subseteq {"clear", "reset_cursor", "raw_output"}
      ]_vars

\* C8: while the Mode is Raw the loop never enters the widget's draw and no
\* frame is written: the terminal is written only by the clear and reset
\* around the raw run, by the raw widget and, when the channel closes before
\* the run, by the final clear.
C8_NoFrameInRawMode ==
    [][ state.kind = "Raw" =>
            /\ pc' # "ui_draw"
            /\ NewWrites \subseteq
                  {"clear", "reset_cursor", "raw_output", "final_clear"}
      ]_vars

\* a Render tick was taken in Raw mode, the raw run is over, no frame drawn
C8_Witness ==
    /\ state.kind = "Raw"
    /\ pc = "raw_done"
    /\ ev = Render
    /\ term = <<"clear", "reset_cursor", "raw_output", "clear">>

\* C9 as claimed: when the loop was left on Exited or on the closed channel
\* and run has returned, the terminal was cleared with the cursor at (0,0),
\* shutdown was called exactly once and nothing was dispatched after the
\* loop.
C9_Claimed ==
    (left # "no" /\ pc \in {"done", "failed"}) =>
        /\ term = <<"final_clear">>
        /\ shutdowns = 1
        /\ dispatched = <<>>

\* C10 as claimed: when the loop has ended on an error of a dispatch, of a
\* widget's draw or of the terminal's draw, shutdown was called with the final
\* message.
C10_Claimed ==
    (left = "no" /\ pc \in {"failed", "panicked"}) => shutdowns = 1

(***************************************************************************)
(* SpecStart: the two detached units Dashboard::start leaves behind, the   *)
(* input-forwarding task and the render thread, with the caller holding    *)
(* the sender start returned.  The render loop is seen from outside: it    *)
(* takes events off the channel until it returns or unwinds.               *)
(***************************************************************************)
\* msg.into(): the event made of the k-th chunk
ChunkEvent(k) == Input(ToString(k))

\* the forwarding task has returned, and with it reader_tx is dropped
ReaderEnded == reader \in {"done", "failed"}

\* the render thread is over; rx went with it
RenderEnded == render \in {"exited", "failed", "panicked"}

\* the receiver of the channel exists: rx is owned by run()
ReceiverAlive == render = "running"

\* some sender of the channel exists: the caller's tx or the task's reader_tx
SendersAlive == tx \/ ~ReaderEnded

StartInit ==
    /\ ViewIdle
    /\ LoopInit
    /\ stdin \in 0..MaxChunks
    /\ stream = 0
    /\ reader = "select"
    /\ tx = TRUE
    /\ chan = <<>>
    /\ render = "running"
    /\ forwarded = <<>>
    /\ ProcessIdle
    /\ StoreNew
    /\ Undrawn
    /\ ListNew
    /\ ModeIdle

\* the select arm `Ok(Some(msg)) = stream.try_next()` and its body: the chunk
\* is sent, and the `?` returns the error of a send to a dropped receiver
ReaderForward ==
    /\ reader = "select"
    /\ stream < stdin
    /\ stream' = stream + 1
    /\ IF ReceiverAlive
          THEN /\ chan' = Append(chan, ChunkEvent(stream + 1))
               /\ forwarded' = Append(forwarded, ChunkEvent(stream + 1))
               /\ UNCHANGED reader
          ELSE /\ reader' = "failed"
               /\ UNCHANGED <<chan, forwarded>>
    /\ UNCHANGED <<beyondStart, stdin, tx, render>>

\* stream.try_next() yields Ok(None) at the end of the input (or Err on a read
\* error): the pattern Ok(Some(msg)) does not match, select! disables that
\* arm and keeps waiting on the other one, reader_tx.closed()
ReaderStreamEnds ==
    /\ reader = "select"
    /\ stream = stdin
    /\ reader' = "closed_only"
    /\ UNCHANGED <<beyondStart, stdin, stream, tx, chan, render, forwarded>>

\* the select arm `() = reader_tx.closed()`: the receiver is gone, break
ReaderClosed ==
    /\ reader \in {"select", "closed_only"}
    /\ ~ReceiverAlive
    /\ reader' = "done"
    /\ UNCHANGED <<beyondStart, stdin, stream, tx, chan, render, forwarded>>

\* the caller sends an event with the sender start returned
CallerSend ==
    /\ tx
    /\ ReceiverAlive
    /\ Len(chan) < MaxQueue
    /\ chan' = Append(chan, Resize("a1"))
    /\ UNCHANGED <<beyondStart, stdin, stream, reader, tx, render, forwarded>>

\* the caller drops the sender start returned
CallerDrop ==
    /\ tx
    /\ tx' = FALSE
    /\ UNCHANGED <<beyondStart, stdin, stream, reader, chan, render,
                   forwarded>>

\* the select arm on rx.recv().  It yields the next event and the loop body
\* handles it: the loop goes on, or run returns Ok after Exited, or returns an
\* error, or a draw panics.  It yields None when the channel is empty and
\* every sender has been dropped: the loop breaks and run returns
RenderRecv ==
    /\ render = "running"
    /\ IF chan # <<>>
          THEN \E out \in {"running", "exited", "failed", "panicked"} :
                  /\ render' = out
                  /\ chan' = IF out = "running" THEN Tail(chan) ELSE <<>>
          ELSE /\ ~SendersAlive
               /\ render' \in {"exited", "failed"}
               /\ UNCHANGED chan
    /\ UNCHANGED <<beyondStart, stdin, stream, reader, tx, forwarded>>

\* a Render tick whose draw fails: run returns the error or the draw panics
RenderTickFails ==
    /\ render = "running"
    /\ render' \in {"failed", "panicked"}
    /\ chan' = <<>>
    /\ UNCHANGED <<beyondStart, stdin, stream, reader, tx, forwarded>>

StartNext ==
    \/ ReaderForward
    \/ ReaderStreamEnds
    \/ ReaderClosed
    \/ CallerSend
    \/ CallerDrop
    \/ RenderRecv
    \/ RenderTickFails

\* the tokio runtime polls a task that can make progress, and the render
\* thread is scheduled by the operating system; the failures of the terminal
\* and the caller's actions are under no such obligation
StartFairness ==
    /\ WF_vars(ReaderForward)
    /\ WF_vars(ReaderStreamEnds)
    /\ WF_vars(ReaderClosed)
    /\ WF_vars(RenderRecv)

SpecStart == StartInit /\ [][StartNext]_vars /\ StartFairness

(***************************************************************************)
(* Properties of the detached units (checked under SpecStart)              *)
(***************************************************************************)
\* C11 as claimed: the forwarding task forwards each chunk it reads as one
\* event, in the order read, and it terminates at the very step at which the
\* input stream ends or at which it finds the receiver gone
C11_Claimed ==
    [][/\ reader' # "failed" =>
             forwarded' = [k \in 1..stream' |-> ChunkEvent(k)]
       /\ (ReaderStreamEnds \/ ReaderClosed) => ReaderEnded']_vars

\* C12 as claimed: once the input stream is at its end and the caller has
\* dropped the sender, the forwarding task eventually ends and the render
\* thread eventually finishes
C12_Claimed ==
    (stream = stdin /\ ~tx) ~> (ReaderEnded /\ RenderEnded)

(***************************************************************************)
(* SpecProcess: several sessions started in one process by                 *)
(* Dashboard::start.  Each has its own channel, render thread, Mode and    *)
(* widget stack; the two counters are statics of the process.              *)
(***************************************************************************)
Sessions == 1..MaxSessions

\* Mode::UI(Apex::new(client)) on a channel that holds nothing yet
Running == [thread |-> "running", mode |-> "UI", stack |-> 2, chan |-> 0]

\* the thread is over and what it owned is dropped
Over(how) == [thread |-> how, mode |-> "none", stack |-> 0, chan |-> 0]

\* faulty variant: the panic takes every render thread of the process down
Aborted(ss, s) ==
    [t \in DOMAIN ss |->
        IF t = s \/ ss[t].thread = "running" THEN Over("panicked") ELSE ss[t]]

\* the panic of a draw inside the thread std::thread::spawn started: that
\* thread unwinds, dropping what it owns, and no other thread is touched
Unwound(ss, s) == [ss EXCEPT ![s] = Over("panicked")]

ProcessInit ==
    /\ ViewIdle
    /\ LoopInit
    /\ StartIdle
    /\ ProcessIdle
    /\ StoreNew
    /\ Undrawn
    /\ ListNew
    /\ ModeIdle

\* Dashboard::start up to its return: the runtime is built and the thread
\* spawned, or the `?` on the build returns the error and no thread exists
StartSession(s) ==
    /\ sessions[s].thread = "unstarted"
    /\ \E t \in {"spawned", "refused"} :
          sessions' = [sessions EXCEPT ![s].thread = t]
    /\ UNCHANGED <<beyondProcess, threads_total, threads_active>>

\* TOTAL_DASHBOARD_THREADS.inc()
IncTotal(s) ==
    /\ sessions[s].thread = "spawned"
    /\ sessions' = [sessions EXCEPT ![s].thread = "counted"]
    /\ threads_total' = threads_total + 1
    /\ UNCHANGED <<beyondProcess, threads_active>>

\* ACTIVE_DASHBOARD_THREADS.inc(), then rt.block_on(run(..)) begins
IncActive(s) ==
    /\ sessions[s].thread = "counted"
    /\ sessions' = [sessions EXCEPT ![s] = Running]
    /\ threads_active' = threads_active + 1
    /\ UNCHANGED <<beyondProcess, threads_total>>

\* an event is sent on the session's channel
SessionSend(s) ==
    /\ sessions[s].thread = "running"
    /\ sessions[s].chan = 0
    /\ sessions' = [sessions EXCEPT ![s].chan = 1]
    /\ UNCHANGED <<beyondProcess, threads_total, threads_active>>

\* one iteration of the session's loop on an event of its channel: a widget
\* is pushed or removed, the Mode changes, run returns (Ok after Exited, Err
\* after a dispatch or terminal error), or a widget's draw fails and panics
SessionLoop(s) ==
    /\ sessions[s].thread = "running"
    /\ sessions[s].chan = 1
    /\ \E out \in {"same", "push", "pop", "raw", "ui", "returned", "panic"} :
          LET me == [sessions[s] EXCEPT !.chan = 0]
          IN  /\ out = "push" => me.stack < 3
              /\ out = "pop" => me.stack > 1
              /\ out = "raw" => me.mode = "UI"
              /\ out = "ui" => me.mode = "Raw"
              /\ sessions' =
                    CASE out = "same" -> [sessions EXCEPT ![s] = me]
                      [] out = "push" ->
                            [sessions EXCEPT
                                ![s] = [me EXCEPT !.stack = me.stack + 1]]
                      [] out = "pop" ->
                            [sessions EXCEPT
                                ![s] = [me EXCEPT !.stack = me.stack - 1]]
                      [] out = "raw" ->
                            [sessions EXCEPT ![s] = [me EXCEPT !.mode = "Raw"]]
                      [] out = "ui" ->
                            [sessions EXCEPT ![s] = [me EXCEPT !.mode = "UI"]]
                      [] out = "returned" ->
                            [sessions EXCEPT ![s] = Over("returned")]
                      [] out = "panic" -> Unwound(sessions, s)
    /\ UNCHANGED <<beyondProcess, threads_total, threads_active>>

\* a Render tick of the session's loop whose draw fails: run returns the
\* error of the terminal, or the widget's draw fails and panics
SessionTickFails(s) ==
    /\ sessions[s].thread = "running"
    /\ \/ sessions' = [sessions EXCEPT ![s] = Over("returned")]
       \/ sessions' = Unwound(sessions, s)
    /\ UNCHANGED <<beyondProcess, threads_total, threads_active>>

\* block_on has returned, Ok or Err: ACTIVE_DASHBOARD_THREADS.dec() and the
\* end of the thread
DecActive(s) ==
    /\ sessions[s].thread = "returned"
    /\ sessions' = [sessions EXCEPT ![s].thread = "ended"]
    /\ threads_active' = threads_active - 1
    /\ UNCHANGED <<beyondProcess, threads_total>>

ProcessNext ==
    \E s \in Sessions :
        \/ StartSession(s)
        \/ IncTotal(s)
        \/ IncActive(s)
        \/ SessionSend(s)
        \/ SessionLoop(s)
        \/ SessionTickFails(s)
        \/ DecActive(s)

SpecProcess == ProcessInit /\ [][ProcessNext]_vars

(***************************************************************************)
(* Properties of concurrent sessions (checked under SpecProcess)           *)
(***************************************************************************)
\* a render thread has been started for the session and has counted itself
EverStarted(s) ==
    sessions[s].thread \in {"counted", "running", "returned", "ended", "panicked"}

\* the session's render thread has counted itself active and has not ended
StartedNotEnded(s) == sessions[s].thread \in {"running", "returned"}

\* every session that was started has no render thread any more
AllEnded ==
    /\ \E s \in Sessions : sessions[s].thread \in {"ended", "panicked"}
    /\ \A s \in Sessions :
          sessions[s].thread \in {"unstarted", "refused", "ended", "panicked"}

\* C13 as claimed: the total counter is the number of render threads ever
\* started, the active gauge the number of those started and not yet ended;
\* the gauge is never negative, never above the total, and it is 0 once every
\* render thread has ended, however it ended
C13_Claimed ==
    /\ threads_total = Cardinality({s \in Sessions : EverStarted(s)})
    /\ threads_active = Cardinality({s \in Sessions : StartedNotEnded(s)})
    /\ threads_active >= 0
    /\ threads_active <= threads_total
    /\ AllEnded => threads_active = 0

Objects == {"a", "b"}

\* the events of the watch stream: a full listing, an object added or
\* modified, an object deleted
Updates ==
    {[op |-> "Restart", objs |-> S] : S \in SUBSET Objects}
    \cup {[op |-> o, objs |-> {k}] : o \in {"Apply", "Delete"}, k \in Objects}

\* .reflect(writer): the event is applied to the store under its write lock
Applied(snap, e) ==
    CASE e.op = "Restart" -> e.objs
      [] e.op = "Apply"   -> snap \cup e.objs
      [] e.op = "Delete"  -> snap \ e.objs
      [] OTHER            -> snap

\* faulty variant: the read does not exclude the writer and sees the event
\* in hand half applied
TornRead(snap, e) == IF e = NoUpdate THEN snap ELSE snap \cup {"partial"}

\* self.reader.state(): the objects of the store, read under its read lock
StateRead(snap, e) == snap

\* faulty variant: the task is left running when the Store goes
Detached(t) == t

\* self.task.abort(): a task suspended at its await is cancelled there; a
\* task being polled on another worker is cancelled when that poll yields
Abort(t) ==
    CASE t = "waiting" -> "cancelled"
      [] t = "polling" -> "cancelling"
      [] OTHER         -> t

\* Store::loading
Loading == FALSE

\* the initial full listing has been applied to the snapshot
InitialListed == delivered > 0

StoreInit ==
    /\ ViewIdle
    /\ LoopInit
    /\ StartIdle
    /\ ProcessIdle
    /\ StoreNew
    /\ Undrawn
    /\ ListNew
    /\ ModeIdle

\* the task is polled, or goes on in the poll it is in, and the watch stream
\* has an event ready; the first event of a watch is the full listing
TaskTakes(e) ==
    /\ task \in {"waiting", "polling", "cancelling"}
    /\ inflight = NoUpdate
    /\ delivered < MaxUpdates
    /\ delivered = 0 => e.op = "Restart"
    /\ task' = IF task = "waiting" THEN "polling" ELSE task
    /\ inflight' = e
    /\ UNCHANGED <<beyondStore, dropped, snapshot, prefixes, delivered, seen,
                   loading_ret>>

\* the reflector applies the event in hand to the store
TaskApplies ==
    /\ task \in {"polling", "cancelling"}
    /\ inflight # NoUpdate
    /\ snapshot' = Applied(snapshot, inflight)
    /\ prefixes' = prefixes \cup {snapshot'}
    /\ delivered' = delivered + 1
    /\ inflight' = NoUpdate
    /\ UNCHANGED <<beyondStore, task, dropped, seen, loading_ret>>

\* the watch stream is pending and the poll ends: the task is suspended
\* again, or dropped if its cancellation was requested meanwhile
TaskYields ==
    /\ task \in {"polling", "cancelling"}
    /\ inflight = NoUpdate
    /\ task' = IF task = "cancelling" THEN "cancelled" ELSE "waiting"
    /\ UNCHANGED <<beyondStore, dropped, snapshot, prefixes, delivered,
                   inflight, seen, loading_ret>>

\* Store::state, through the Store or a clone of its reader
StoreState ==
    /\ seen' = <<StateRead(snapshot, inflight)>>
    /\ UNCHANGED <<beyondStore, task, dropped, snapshot, prefixes, delivered,
                   inflight, loading_ret>>

\* Store::loading
StoreLoading ==
    /\ ~dropped
    /\ loading_ret' = <<[ret |-> Loading, listed |-> InitialListed]>>
    /\ UNCHANGED <<beyondStore, task, dropped, snapshot, prefixes, delivered,
                   inflight, seen>>

\* Drop for Store
StoreDrop ==
    /\ ~dropped
    /\ dropped' = TRUE
    /\ task' = Abort(task)
    /\ UNCHANGED <<beyondStore, snapshot, prefixes, delivered, inflight, seen,
                   loading_ret>>

StoreNext ==
    \/ \E e \in Updates : TaskTakes(e)
    \/ TaskApplies
    \/ TaskYields
    \/ StoreState
    \/ StoreLoading
    \/ StoreDrop

SpecStore == StoreInit /\ [][StoreNext]_vars

C17_Claimed ==
    \A i \in DOMAIN loading_ret : loading_ret[i].ret = ~loading_ret[i].listed

(***************************************************************************)
(* SpecDraw: View::draw of a View of arbitrary elements, in any order of   *)
(* z-index, in modal and in show-all mode; any of the elements may fail to *)
(* draw.                                                                   *)
(***************************************************************************)
Min(S) == CHOOSE x \in S : \A y \in S : x <= y

Max(S) == CHOOSE x \in S : \A y \in S : x >= y

\* faulty variant: every element is a chunk of its own
Singletons(ws) == [k \in 1..Len(ws) |-> [z |-> ws[k].z, layer |-> <<ws[k]>>]]

\* widgets.chunk_by(|widget| widget.zindex()): the runs of consecutive
\* elements of equal z-index, each with its key
RECURSIVE ChunkBy(_)
ChunkBy(ws) ==
    IF ws = <<>> THEN <<>>
    ELSE LET n     == Len(ws)
             front == ChunkBy(SubSeq(ws, 1, n - 1))
             m     == Len(front)
         IN  IF m > 0 /\ front[m].z = ws[n].z
                THEN [front EXCEPT ![m].layer = Append(@, ws[n])]
                ELSE Append(front, [z |-> ws[n].z, layer |-> <<ws[n]>>])

\* faulty variant: the chunks are left in the order of the sequence
Unsorted(cs) == cs

\* .sorted_by(|(a, _), (b, _)| a.cmp(b)): the chunks in ascending order of
\* their key; the sort is stable, chunks of equal key keep their order
RECURSIVE SortedBy(_)
SortedBy(cs) ==
    IF cs = <<>> THEN <<>>
    ELSE LET n     == Len(cs)
             front == SortedBy(SubSeq(cs, 1, n - 1))
             k     == Cardinality({i \in DOMAIN front : front[i].z <= cs[n].z})
         IN  SubSeq(front, 1, k) \o <<cs[n]>> \o SubSeq(front, k + 1, n - 1)

\* View::layers, without the areas the layout gives the elements
ViewLayers(ws) ==
    LET cs == SortedBy(ChunkBy(ws)) IN [k \in DOMAIN cs |-> cs[k].layer]

\* layers.tail(1)
Tail1(ls) == IF ls = <<>> THEN <<>> ELSE <<ls[Len(ls)]>>

\* the elements of the layers one after the other
RECURSIVE Flat(_)
Flat(ls) == IF ls = <<>> THEN <<>> ELSE Head(ls) \o Flat(Tail(ls))

\* the two loops of View::draw over the elements es when the draw of the
\* elements in bad returns Err: the `?` stops at the first of them
DrawLoop(es, bad) ==
    LET at == {i \in DOMAIN es : es[i].id \in bad}
        n  == IF at = {} THEN Len(es) ELSE Min(at)
    IN  [drawn |-> [i \in 1..n |-> es[i].id],
         ret   |-> IF at = {} THEN "ok" ELSE "err"]

\* View::draw
ViewDraw(ws, all, bad) ==
    LET ls == ViewLayers(ws)
    IN  DrawLoop(Flat(IF all THEN ls ELSE Tail1(ls)), bad)

\* the identities of the elements of the layers
LayerIds(ls) == [k \in DOMAIN ls |-> [i \in DOMAIN ls[k] |-> ls[k][i].id]]

\* element sequences of length n with identities 1..n and any z-indices
ViewsOfZ(n) ==
    {[k \in 1..n |-> ElementFrom(k, f[k])] : f \in [1..n -> 0..MaxZ]}

DrawInit ==
    /\ \E n \in 0..MaxElems : widgets \in ViewsOfZ(n)
    /\ vOp = "init"
    /\ vPrev = <<>>
    /\ vResp = <<>>
    /\ vVisited = <<>>
    /\ vResult = NoResult
    /\ LoopInit
    /\ StartIdle
    /\ ProcessIdle
    /\ StoreNew
    /\ ListNew
    /\ ModeIdle
    /\ show_all \in BOOLEAN
    /\ layers = <<>>
    /\ drawn = <<>>
    /\ draw_ret = "none"

\* View::draw of a frame, the draw of the elements in bad failing
ViewDrawing ==
    \E bad \in SUBSET {widgets[k].id : k \in DOMAIN widgets} :
        LET d == ViewDraw(widgets, show_all, bad)
        IN  /\ vOp' = "draw"
            /\ layers' = LayerIds(ViewLayers(widgets))
            /\ drawn' = d.drawn
            /\ draw_ret' = d.ret
            /\ UNCHANGED <<beyondDraw, widgets, show_all>>

DrawNext == ViewDrawing

SpecDraw == DrawInit /\ [][DrawNext]_vars

(***************************************************************************)
(* Properties of View::draw (checked under SpecDraw)                       *)
(***************************************************************************)
\* the z-indices of the elements
ZIndices(ws) == {ws[k].z : k \in DOMAIN ws}

\* the sequence does not decrease in z-index
NonDecreasing(ws) == \A i, j \in DOMAIN ws : i < j => ws[i].z <= ws[j].z

\* the identities of the elements of z-index z, in sequence order
IdsOfZ(ws, z) ==
    LET at(e) == e.z = z
        es    == SelectSeq(ws, at)
    IN  [i \in DOMAIN es |-> es[i].id]

\* the k-th smallest z-index of the elements
KthZ(ws, k) ==
    CHOOSE z \in ZIndices(ws) :
        Cardinality({y \in ZIndices(ws) : y <= z}) = k

\* s is what is left of t when the draw stopped at an element that failed
StoppedIn(s, t) == Len(s) <= Len(t) /\ s = SubSeq(t, 1, Len(s))

\* what a draw that stops at the first failure leaves of the elements t
Outcome(t) ==
    IF draw_ret = "ok" THEN drawn = t
    ELSE drawn # <<>> /\ StoppedIn(drawn, t)

\* C18: for a sequence that does not decrease in z-index, draw forms one
\* layer per distinct z-index, in ascending order of z, each holding all the
\* elements of that z-index in sequence order; show-all mode draws every
\* layer bottom to top and modal mode only the layer of the highest z-index
\* (a draw that fails stops at the failing element)
C18_OneLayerPerZIndex ==
    (vOp = "draw" /\ NonDecreasing(widgets)) =>
        /\ Len(layers) = Cardinality(ZIndices(widgets))
        /\ \A k \in DOMAIN layers : layers[k] = IdsOfZ(widgets, KthZ(widgets, k))
        /\ show_all => Outcome([k \in DOMAIN widgets |-> widgets[k].id])
        /\ (~show_all /\ widgets # <<>>) =>
              Outcome(IdsOfZ(widgets, Max(ZIndices(widgets))))
        /\ widgets = <<>> => drawn = <<>> /\ draw_ret = "ok"

\* the z-indices are [0, 0, 1]: two layers, and modal mode has drawn the
\* element of z-index 1 only
C18_Witness ==
    /\ vOp = "draw"
    /\ [k \in DOMAIN widgets |-> widgets[k].z] = <<0, 0, 1>>
    /\ layers = <<<<1, 2>>, <<3>>>>
    /\ ~show_all
    /\ drawn = <<3>>
    /\ draw_ret = "ok"

\* the last position of the sequence whose z-index is the greatest
TopEnd(ws) == Max({k \in DOMAIN ws : ws[k].z = Max(ZIndices(ws))})

\* the identities of the run of equal z-index that ends at position j
RunEndingAt(ws, j) ==
    LET from == Min({i \in 1..j : \A k \in i..j : ws[k].z = ws[j].z})
    IN  [k \in 1..(j - from + 1) |-> ws[from + k - 1].id]

\* C19 as claimed: in modal mode, whatever the order of the z-indices, draw
\* draws exactly the last run of equal z-index of the sequence: an element is
\* drawn only when no element after it has another z-index
C19_Claimed ==
    (vOp = "draw" /\ ~show_all /\ widgets # <<>>) =>
        Outcome(RunEndingAt(widgets, Len(widgets)))

\* C19: in modal mode, whatever the order of the z-indices, draw draws
\* exactly one run of equal z-index: the last of the runs of the greatest
\* z-index, which is the last run of the sequence when the sequence does not
\* decrease in z-index (a draw that fails stops at the failing element)
C19_ModalDrawsTopRun ==
    (vOp = "draw" /\ ~show_all /\ widgets # <<>>) =>
        /\ Outcome(RunEndingAt(widgets, TopEnd(widgets)))
        /\ NonDecreasing(widgets) => TopEnd(widgets) = Len(widgets)

\* the z-indices are [1, 0, 1] and modal mode has drawn the last element
\* only, the later of the two runs of z-index 1
C19_Witness ==
    /\ vOp = "draw"
    /\ ~show_all
    /\ [k \in DOMAIN widgets |-> widgets[k].z] = <<1, 0, 1>>
    /\ drawn = <<3>>
    /\ draw_ret = "ok"

(***************************************************************************)
(* Escape from end to end (checked under Spec, whose root widget starts    *)
(* as one terminal element with one non-terminal element above it)         *)
(***************************************************************************)
Escape == Input("Escape")

\* one terminal base element with one non-terminal overlay above it
BaseAndOverlay(ws) == Len(ws) = 2 /\ ws[1].terminal /\ ~ws[2].terminal

\* the terminal base element alone
BaseOnly(ws) == Len(ws) = 1 /\ ws[1].terminal

\* C20 as claimed: in UI mode, with a terminal base and a non-terminal
\* overlay, an Escape that makes the overlay exit removes the overlay and the
\* loop goes on to its next select; a following Escape that makes the base
\* exit, the base being alone, leaves the stack as it is, makes the dispatch
\* return Exited and the loop end, and when run has returned the output has
\* received the shutdown message
C20_Claimed ==
    [][/\ (/\ pc = "body" /\ state.kind = "UI" /\ ev = Escape
           /\ BaseAndOverlay(state.widget.widgets)
           /\ BaseOnly(state'.widget.widgets))
          => result' = Ignored /\ pc' = "ui_draw"
       /\ (pc = "match" /\ ev = Escape /\ result = Ignored) => pc' = "select"
       /\ (/\ pc = "body" /\ state.kind = "UI" /\ ev = Escape
           /\ BaseOnly(state.widget.widgets)
           /\ result' = Exited)
          => state' = state /\ pc' = "ui_draw"
       /\ (pc = "match" /\ ev = Escape /\ result = Exited)
          => pc' = "cleanup" /\ left' = "Exited"
       /\ (left_ev' = Escape /\ pc' \in {"done", "failed"})
          => shutdowns' = 1]_vars

(***************************************************************************)
(* What the loop does with the events it takes (checked under Spec)        *)
(***************************************************************************)
\* the event came from the channel: it is neither the tick nor no event
FromChannel(e) == e.type \in {"Input", "Resize", "Tunnel"}

\* C21 as claimed: the loop discards no event.  When an iteration of the loop
\* has run to its end, the channel event select! took for it has been
\* dispatched to the UI widget, or was the EndOfText on which draw_ui itself
\* returned Exited; the events left in the channel stay there for the raw
\* widget
C21_Claimed ==
    (pc = "match" /\ FromChannel(ev)) =>
        \/ \E i \in DOMAIN dispatched : dispatched[i] = ev
        \/ ev = Input("EndOfText") /\ result = Exited

TryRecv(ch) ==
    [ok |-> ch = "sent", chan |-> IF ch = "sent" THEN "taken" ELSE ch]

\* the first statement of List::draw: the top element is popped when the
\* readiness signal is received
ReadyPopped(ws, ch) == IF TryRecv(ch).ok THEN Pop(ws) ELSE ws

\* List::dispatch
ListDispatch(ws, e, resp) ==
    LET d == ViewDispatch(ws, resp)
    IN  IF propagate(d.result) # "continue"
        THEN [widgets |-> d.widgets, result |-> d.result]
        ELSE [widgets |-> d.widgets,
              result  |-> IF e = Escape THEN Exited ELSE Ignored]

\* the events a List is offered
ListEvents == {Escape, Input("Down"), Tunnel("err")}

\* List::new has returned; the table and the Loading overlay report any
\* z-index
ListInit ==
    /\ ViewIdle
    /\ LoopInit
    /\ StartIdle
    /\ ProcessIdle
    /\ StoreNew
    /\ Undrawn
    /\ ModeIdle
    /\ \E zt, zl \in 0..MaxZ :
           list_view = <<ElementFrom(1, zt), ElementFrom(2, zl)>>
    /\ is_ready = "pending"
    /\ list_op = "new"
    /\ list_before = <<>>
    /\ list_ret = NoResult

\* the store sends the readiness signal
StoreReady ==
    /\ is_ready = "pending"
    /\ is_ready' = "sent"
    /\ list_op' = "ready"
    /\ list_before' = list_view
    /\ UNCHANGED <<beyondList, list_view, list_ret>>

\* the store drops the sender without sending
StoreNeverReady ==
    /\ is_ready = "pending"
    /\ is_ready' = "closed"
    /\ list_op' = "ready"
    /\ list_before' = list_view
    /\ UNCHANGED <<beyondList, list_view, list_ret>>

\* List::dispatch is called with an event; each element answers anything
ListDispatching ==
    \E e \in ListEvents : \E resp \in [DOMAIN list_view -> Responses] :
        LET d == ListDispatch(list_view, e, resp)
        IN  /\ list_before' = list_view
            /\ list_view' = d.widgets
            /\ list_ret' = d.result
            /\ list_op' = "dispatch"
            /\ UNCHANGED <<beyondList, is_ready>>

\* List::draw is called; the draw of the elements in bad returns Err
ListDrawing ==
    \E bad \in SUBSET {list_view[k].id : k \in DOMAIN list_view} :
        LET ws == ReadyPopped(list_view, is_ready)
        IN  /\ list_before' = list_view
            /\ list_view' = ws
            /\ is_ready' = TryRecv(is_ready).chan
            /\ list_ret' = IF ViewDraw(ws, FALSE, bad).ret = "ok"
                           THEN NoResult ELSE ErrR
            /\ list_op' = "draw"
            /\ UNCHANGED beyondList

ListNext ==
    \/ StoreReady
    \/ StoreNeverReady
    \/ ListDispatching
    \/ ListDrawing

SpecList == ListInit /\ [][ListNext]_vars

\* C23 as claimed: a draw leaves the element sequence of the View the widget
\* owns as it was before the draw
C23_Claimed == list_op = "draw" => list_view = list_before

(***************************************************************************)
(* SpecMode: the methods of Mode applied to any Mode in any order.         *)
(***************************************************************************)
\* the calls of a method followed on one Mode
MaxCalls == 3

RECURSIVE Overlaid(_, _)
\* the root widget w under n Error overlays
Overlaid(w, n) ==
    IF n = 0
    THEN w
    ELSE LET u == Overlaid(w, n - 1)
         IN  [u EXCEPT !.widgets =
                  Push(@, ElementFrom(FirstOverlayId + n - 1, DefaultZ))]

\* the root widgets a Mode may own
ModeWidgets ==
    {Overlaid(ApexNew(d), n) : d \in BOOLEAN, n \in 0..MaxOverlays}

\* the values of Mode
Modes ==
    {UI(w) : w \in ModeWidgets}
        \cup {RawM(r, w) : r \in RawIds, w \in ModeWidgets}

ModeInit ==
    /\ ViewIdle
    /\ LoopInit
    /\ StartIdle
    /\ ProcessIdle
    /\ StoreNew
    /\ Undrawn
    /\ ListNew
    /\ mode \in Modes
    /\ mode_op = <<>>
    /\ mode_before = mode

\* state.ui()
UiCalled ==
    /\ Len(mode_op) < MaxCalls
    /\ mode' = ModeUi(mode)
    /\ mode_op' = Append(mode_op, "ui")
    /\ mode_before' = mode
    /\ UNCHANGED beyondMode

\* state.raw(r)
RawCalled ==
    /\ Len(mode_op) < MaxCalls
    /\ \E r \in RawIds : mode' = ModeRaw(mode, r)
    /\ mode_op' = Append(mode_op, "raw")
    /\ mode_before' = mode
    /\ UNCHANGED beyondMode

ModeNext ==
    \/ UiCalled
    \/ RawCalled

SpecMode == ModeInit /\ [][ModeNext]_vars

\* the last n methods called were ui
LastUi(n) ==
    /\ Len(mode_op) >= n
    /\ \A k \in 1..n : mode_op[Len(mode_op) + 1 - k] = "ui"

\* C24: after ui the Mode is UI and owns the widget the Mode owned before
\* the call (the suspended one when it was Raw); called in UI, ui leaves the
\* Mode as it was, so that a second ui in a row changes nothing
C24_UiIdempotent ==
    /\ LastUi(1) =>
           /\ mode = UI(mode_before.widget)
           /\ mode_before.kind = "UI" => mode = mode_before
    /\ LastUi(2) => mode = mode_before

\* ui was called twice in a row on a Raw Mode whose suspended widget carries
\* an overlay
C24_Witness ==
    /\ mode_op = <<"raw", "ui", "ui">>
    /\ mode = UI(Overlaid(ApexNew(FALSE), 1))
    /\ mode_before = mode

(***************************************************************************)
(* EndOfText and the Error overlay of Apex (checked under Spec)            *)
(***************************************************************************)
EndOfText == Input("EndOfText")

\* C25: in UI mode draw_ui answers EndOfText with Exited whatever the stack
\* of the root widget holds: the event is dispatched to no widget, nothing
\* is drawn and no widget state changes; `match result` then leaves the loop
\* for the termination cleanup, after which run only returns
C25_EndOfTextExits ==
    [][/\ (pc = "body" /\ state.kind = "UI" /\ ev = EndOfText)
          => /\ result' = Exited
             /\ pc' = "match"
             /\ dispatched' = dispatched
             /\ term' = term
             /\ state' = state
             /\ nextId' = nextId
       /\ (pc = "match" /\ ev = EndOfText /\ result = Exited)
          => /\ pc' = "cleanup"
             /\ left' = "Exited"
             /\ left_ev' = EndOfText
             /\ state' = state
       /\ (pc = "cleanup" /\ left_ev = EndOfText)
          => /\ pc' \in {"cleanup", "done", "failed"}
             /\ state' = state
             /\ dispatched' = dispatched
             /\ term' \in {term, Written(term, "final_clear")}]_vars

\* draw_ui has returned Exited on EndOfText with an Error overlay on the
\* stack: nothing was dispatched and nothing drawn
C25_Witness ==
    /\ pc = "match"
    /\ ev = EndOfText
    /\ result = Exited
    /\ state.kind = "UI"
    /\ Len(state.widget.widgets) > Len(ApexNew(FALSE).widgets)
    /\ dispatched = <<>>
    /\ term = <<>>

\* the identities of the elements of ws
Ids(ws) == {ws[k].id : k \in DOMAIN ws}

\* the identities of the elements a draw of the root widget w draws when no
\* element fails
DrawnIds(w) ==
    LET d == ViewDraw(w.widgets, w.show_all, {}).drawn
    IN  {d[k] : k \in DOMAIN d}

\* C26: when draw_ui hands Tunnel(Err) to Apex, one new non-terminal element
\* is put on top of the View before the View sees the event: afterwards it
\* is the top element, or it has answered Exited as the first element
\* offered the event, and then it alone was removed, the dispatch returned
\* Ignored and the loop goes on.  No other step adds an element to the View.
\* An overlay that leaves the View on any event leaves alone and the
\* dispatch returns Ignored.  An overlay left by the dispatch is among the
\* elements the draw that follows draws.
C26_ErrorOverlay ==
    [][LET ws  == state.widget.widgets
           ws2 == state'.widget.widgets
           top == ElementFrom(nextId, DefaultZ)
           all == Push(ws, top)
           tunnel  == pc = "body" /\ state.kind = "UI" /\ ev = Tunnel("err")
           offered == IF tunnel THEN all ELSE ws
       IN  /\ tunnel
              => /\ nextId' = nextId + 1
                 /\ nextId \notin Ids(ws)
                 /\ dispatched' = Append(dispatched, ev)
                 /\ \/ ws2 = all
                    \/ \E i \in 1..Len(ws) : ws2 = Remove(all, i)
                    \/ ws2 = ws /\ result' = Ignored
                 /\ nextId \in Ids(ws2)
                    => ws2[Len(ws2)] = top /\ nextId \in DrawnIds(state'.widget)
                 /\ pc' = "ui_draw"
           /\ ~tunnel
              => nextId' = nextId /\ Ids(ws2) \subseteq Ids(ws)
           /\ (\E id \in Ids(offered) \ Ids(ws2) : id >= FirstOverlayId)
              => /\ result' = Ignored
                 /\ \E i \in DOMAIN offered : ws2 = Remove(offered, i)]_vars

\* Tunnel(Err) has been dispatched in UI mode and the Error overlay is on top
\* of Apex's View, ahead of the draw
C26_Witness ==
    /\ pc = "ui_draw"
    /\ ev = Tunnel("err")
    /\ dispatched = <<Tunnel("err")>>
    /\ state.kind = "UI"
    /\ state.widget.widgets = Push(ApexNew(FALSE).widgets,
                                   ElementFrom(FirstOverlayId, DefaultZ))
    /\ nextId = FirstOverlayId + 1
====
